---- MODULE Spec2Model ----
(***************************************************************************)
(* Model of snd-xonar-ae.c: the ASUS XONAR AE output switch.  The module   *)
(* state is the device handle xonar_udev, the hardware-access lock         *)
(* xonar_mutex and the cached selection current_output; the operations are *)
(* xonar_ae_init, xonar_ae_exit and the parameter callbacks output_set and *)
(* output_get, run by concurrent callers.  The USB core (enumeration,      *)
(* reference counting, usb_control_msg) is the environment.                *)
(***************************************************************************)
EXTENDS Integers, Sequences, FiniteSets, TLC

VARIABLES
    kpc,            \* position in the module's lifecycle (load, init, live, exit)
    init_ret,       \* what xonar_ae_init returned (NotReturned until it does)
    init_status,    \* xonar_ae_init's local status
    xonar_udev,     \* the device handle (the matched device), NULL when none
    refcnt,         \* references the module holds on the matched device
    plugged,        \* the matched device is still attached
    xonar_mutex,    \* owner of the lock: a caller, or NoOwner
    current_output, \* the cached selection: -1 unknown, 0 headphones, 1 speakers
    dev_sel,        \* the selection last written to the device (-1: none yet)
    inflight,       \* the control transfers in flight
    pc,             \* each caller's position (idle: not in a call)
    val,            \* output_set's parameter val
    speakers,       \* output_set's local speakers
    ret,            \* output_set's local ret, output_get's local status
    xq,             \* how output_get's transfer went: none, fail, short, full, echo
    unk,            \* current_output was unknown at some time during the get
    alone,          \* no other call, startup or shutdown overlapped the call
    follows,        \* the token of the successful set the call came right after
    first,          \* the call is the first one, made live and after an unplug
    ncalls,         \* calls invoked so far
    last,           \* the call that returned last: operation, input, result
    cache0,         \* current_output when startup completed
    clean,          \* every call so far was invoked while the module was live
    hist,           \* the calls that returned, while clean
    serial,         \* no call so far overlapped another call, startup or shutdown
    fresh,          \* what the transfer that succeeded last wrote or read (-1: none)
    reply           \* byte 0 of the buffer of each task's status read (-1: none)

vars == <<kpc, init_ret, init_status, xonar_udev, refcnt, plugged, xonar_mutex,
          current_output, dev_sel, inflight, pc, val, speakers, ret, xq, unk,
          alone, follows, first, ncalls, last, cache0, clean, hist, serial,
          fresh, reply>>

\* The lifecycle, the handle, a call's fixed attributes, the calls returned.
lifecycle == <<kpc, init_ret, init_status, cache0>>
handle == <<xonar_udev, refcnt, plugged>>
callattrs == <<val, speakers, alone, follows, first, ncalls, clean, serial>>
returned == <<last, hist>>
wire == <<fresh, reply>>

----------------------------------------------------------------------------
(* Bounds of the model. *)

NumCallers == 2
MaxCalls == 2
MaxBus == 2

----------------------------------------------------------------------------
(* Program constants. *)

XONAR_VENDOR_ID == 2821
XONAR_PRODUCT_ID == 6159
UAC2_CS_CUR == 1
XONAR_OUTPUT_SEL_CS == 8
XONAR_CONNECTOR_CS == 2
XONAR_OT7_ID == 7
TIMEOUT_MS == 1000
SWITCH_LEN == 2
STATUS_LEN == 6
ENOMEM == 12
ENODEV == 19
EINVAL == 22

NoOwner == 0
\* xonar_ae_init returns 0 or a negative errno.
NotReturned == 1
InitTask == 0
Callers == 1..NumCallers
Tasks == Callers \cup { InitTask }

----------------------------------------------------------------------------
(* Texts are sequences of characters; NUL ends a C string. *)

NUL == "NUL"
LF == "\n"

T_speakers == <<"s", "p", "e", "a", "k", "e", "r", "s">>
T_headphones == <<"h", "e", "a", "d", "p", "h", "o", "n", "e", "s">>
T_1 == <<"1">>
T_0 == <<"0">>

\* The texts callers write to the parameter.
Inputs ==
    { T_speakers, T_headphones, T_1, T_0, T_speakers \o <<LF>>,
      <<"S", "p", "e", "a", "k", "e", "r", "s">>,
      <<"H", "E", "A", "D", "P", "H", "O", "N", "E", "S">>,
      <<"s", "t", "e", "r", "e", "o">>,
      <<>> }

\* No token.
NoToken == <<"-">>

CharAt(s, i) == IF i <= Len(s) THEN s[i] ELSE NUL

RECURSIVE Mismatch(_, _, _)
\* while (*s1 && *s1 == *s2) { s1++; s2++; }
Mismatch(s1, s2, i) ==
    IF CharAt(s1, i) # NUL /\ CharAt(s1, i) = CharAt(s2, i)
    THEN Mismatch(s1, s2, i + 1)
    ELSE i

\* The lower case of the letters the tokens are made of.
LowerChar(c) ==
    CASE c = "S" -> "s" [] c = "P" -> "p" [] c = "E" -> "e" [] c = "A" -> "a"
      [] c = "K" -> "k" [] c = "R" -> "r" [] c = "H" -> "h" [] c = "D" -> "d"
      [] c = "O" -> "o" [] c = "N" -> "n" [] OTHER -> c

RECURSIVE Lower(_)
Lower(v) == IF v = <<>> THEN <<>> ELSE <<LowerChar(Head(v))>> \o Lower(Tail(v))

\* A comparison that ignores case, as strcasecmp would.
sysfs_streq_NoCase(s1, s2) ==
    LET a == Lower(s1)
        b == Lower(s2)
        i == Mismatch(a, b, 1)
    IN  \/ CharAt(a, i) = CharAt(b, i)
        \/ CharAt(a, i) = NUL /\ CharAt(b, i) = LF /\ CharAt(b, i + 1) = NUL
        \/ CharAt(a, i) = LF /\ CharAt(a, i + 1) = NUL /\ CharAt(b, i) = NUL

\* The kernel's sysfs_streq: equality up to one trailing newline.
sysfs_streq(s1, s2) ==
    LET i == Mismatch(s1, s2, 1) IN
    \/ CharAt(s1, i) = CharAt(s2, i)
    \/ CharAt(s1, i) = NUL /\ CharAt(s2, i) = LF /\ CharAt(s2, i + 1) = NUL
    \/ CharAt(s1, i) = LF /\ CharAt(s1, i + 1) = NUL /\ CharAt(s2, i) = NUL

\* A parse that falls back to headphones instead of rejecting.
ParseOutput_Default(v) ==
    IF sysfs_streq(v, T_speakers) \/ sysfs_streq(v, T_1) THEN 1 ELSE 0

\* output_set's parse of its input: 1 speakers, 0 headphones, -EINVAL rejected.
ParseOutput(v) ==
    IF sysfs_streq(v, T_speakers) \/ sysfs_streq(v, T_1) THEN 1
    ELSE IF sysfs_streq(v, T_headphones) \/ sysfs_streq(v, T_0) THEN 0
    ELSE -EINVAL

\* output_get's rendering of a cached value; sprintf returns the length.
RenderText(c) ==
    IF c = 1 THEN "speakers\n"
    ELSE IF c = 0 THEN "headphones\n"
    ELSE "unknown\n"

Sprintf(text) == <<Len(text), text>>

Disconnected == "disconnected\n"

----------------------------------------------------------------------------
(* The USB core. *)

\* Descriptors of the devices that can sit on the bus.
\* No device.
NULL == [idVendor |-> 0, idProduct |-> 0]

Descriptors ==
    { [idVendor |-> XONAR_VENDOR_ID, idProduct |-> XONAR_PRODUCT_ID],
      [idVendor |-> XONAR_VENDOR_ID, idProduct |-> XONAR_PRODUCT_ID + 1],
      [idVendor |-> XONAR_VENDOR_ID + 1, idProduct |-> XONAR_PRODUCT_ID] }

Buses == UNION { [1..n -> Descriptors] : n \in 0..MaxBus }

match_xonar(d) ==
    d.idVendor = XONAR_VENDOR_ID /\ d.idProduct = XONAR_PRODUCT_ID

RECURSIVE ForEachDev(_, _)
\* usb_for_each_dev stops at the first device the callback accepts.
ForEachDev(bus, i) ==
    IF i > Len(bus) THEN NULL
    ELSE IF match_xonar(bus[i]) THEN bus[i]
    ELSE ForEachDev(bus, i + 1)

find_xonar(bus) == ForEachDev(bus, 1)

\* A payload that carries the selection as it is cached.
SwitchMsg_RawValue(udev, spk) ==
    [udev |-> udev, dir |-> "out", request |-> UAC2_CS_CUR,
     wValue |-> XONAR_OUTPUT_SEL_CS * 256, wIndex |-> XONAR_OT7_ID * 256,
     data |-> <<spk, 3>>, size |-> SWITCH_LEN, timeout |-> TIMEOUT_MS]

\* The two control transfers.
SwitchMsg(udev, spk) ==
    [udev |-> udev, dir |-> "out", request |-> UAC2_CS_CUR,
     wValue |-> XONAR_OUTPUT_SEL_CS * 256, wIndex |-> XONAR_OT7_ID * 256,
     data |-> <<IF spk # 0 THEN 1 ELSE 2, 3>>, size |-> SWITCH_LEN,
     timeout |-> TIMEOUT_MS]

StatusMsg(udev) ==
    [udev |-> udev, dir |-> "in", request |-> UAC2_CS_CUR,
     wValue |-> XONAR_CONNECTOR_CS * 256, wIndex |-> XONAR_OT7_ID * 256,
     data |-> <<>>, size |-> STATUS_LEN, timeout |-> TIMEOUT_MS]

\* What usb_control_msg can return: the bytes moved, or a negative errno.
TransferErrors == { -110 }

ControlMsgResults(size) ==
    IF plugged THEN { size, 0 } \cup TransferErrors ELSE { -ENODEV }

\* Byte 0 of the buffer after a status read (left as allocated by a 0-byte read).
ReplyBytes == { 0, 2, 8, 255 }

EchoByte == IF dev_sel = 1 THEN 8 ELSE 2

\* How a status read went: it failed, fell short, moved the full reply, or
\* moved a full reply that echoes the selection last written.
Quality(r, b) ==
    IF r < 0 THEN "fail"
    ELSE IF r < STATUS_LEN THEN "short"
    ELSE IF dev_sel # -1 /\ b = EchoByte THEN "echo"
    ELSE "full"

----------------------------------------------------------------------------
(* Bookkeeping shared by the actions. *)

InCall(t) == pc[t] \notin { "idle", "oops" }

IsGet(t) == pc[t] \in { "get_lock", "get_status", "get_xfer", "get_upd",
                        "get_unlock", "get_read1", "get_read2" }

\* Nothing else is going on around caller t: the module is live and every
\* other caller is idle.
Quiet(t) == kpc = "live" /\ \A w \in Callers \ { t } : pc[w] = "idle"

\* The record of a returned call.
CallRecord(o, v, st, res) == [op |-> o, val |-> v, st |-> st, res |-> res]

NoCall == CallRecord("none", <<>>, 0, <<0, "">>)

\* The token of the set that returned last, when it succeeded with its whole
\* payload written and t is invoked right after it.
FollowsNow(t) ==
    IF Quiet(t) /\ last.op = "set" /\ last.res = <<0, "">> /\ last.st = SWITCH_LEN
    THEN last.val
    ELSE NoToken

FirstNow == ncalls = 0 /\ kpc = "live" /\ ~plugged

\* An assignment to current_output, noted by every get in progress.
WriteCache(v) ==
    /\ current_output' = v
    /\ unk' = [u \in Callers |-> unk[u] \/ (IsGet(u) /\ v = -1)]

\* What the history keeps of a returned call: the selection asked for and
\* the result.
HistRecord(o, v, res) ==
    [op |-> o, sp |-> IF o = "set" THEN ParseOutput(v) ELSE -1, res |-> res]

\* A caller is invoked: the guard and the counters.
Invoke(t) ==
    /\ kpc \notin { "load_failed", "unloaded" }
    /\ pc[t] = "idle"
    /\ ncalls < MaxCalls
    /\ ncalls' = ncalls + 1
    /\ clean' = (clean /\ kpc = "live")
    /\ serial' = (serial /\ Quiet(t))

\* Caller t goes on into operation o with input v, to position p.
Enter(t, o, v, p) ==
    /\ pc' = [pc EXCEPT ![t] = p]
    /\ val' = [val EXCEPT ![t] = v]
    /\ unk' = [unk EXCEPT ![t] = (o = "get" /\ current_output = -1)]
    /\ alone' = [u \in Callers |-> IF u = t THEN Quiet(t) ELSE FALSE]
    /\ follows' = [follows EXCEPT ![t] = FollowsNow(t)]
    /\ first' = [first EXCEPT ![t] = FirstNow]
    /\ hist' = IF clean' THEN hist ELSE <<>>
    /\ UNCHANGED last

\* Caller t returns res at once, from the entry of operation o.
ReturnAtEntry(t, o, v, res) ==
    /\ last' = CallRecord(o, v, 0, res)
    /\ hist' = IF clean' THEN Append(hist, HistRecord(o, v, res)) ELSE <<>>
    /\ alone' = [u \in Callers |-> FALSE]
    /\ UNCHANGED <<pc, val, speakers, unk, follows, first>>

\* Caller t returns res from inside operation o.
Return(t, o, res) ==
    /\ last' = CallRecord(o, val[t], ret[t], res)
    /\ hist' = IF clean THEN Append(hist, HistRecord(o, val[t], res))
               ELSE <<>>
    /\ pc' = [pc EXCEPT ![t] = "idle"]
    /\ val' = [val EXCEPT ![t] = <<>>]
    /\ speakers' = [speakers EXCEPT ![t] = 0]
    /\ ret' = [ret EXCEPT ![t] = 0]
    /\ xq' = [xq EXCEPT ![t] = "none"]
    /\ unk' = [unk EXCEPT ![t] = FALSE]
    /\ alone' = [alone EXCEPT ![t] = FALSE]
    /\ follows' = [follows EXCEPT ![t] = NoToken]
    /\ first' = [first EXCEPT ![t] = FALSE]
    /\ reply' = [reply EXCEPT ![t] = -1]
    /\ UNCHANGED <<ncalls, clean, serial, fresh>>

\* A transfer through the handle as it is read now.
Transfer(t, m) ==
    [by |-> t, held |-> refcnt > 0, locked |-> xonar_mutex = t, msg |-> m]

----------------------------------------------------------------------------
(* output_set *)

\* The parse made before the handle check.
SetCheck_ParseFirst(udev, v) ==
    IF ParseOutput(v) < 0 THEN ParseOutput(v)
    ELSE IF udev = NULL THEN -ENODEV ELSE ParseOutput(v)

\* Lines 134-142: what output_set decides before it locks: an error to
\* return at once, or the selection to switch to.
SetCheck(udev, v) ==
    IF udev = NULL THEN -ENODEV ELSE ParseOutput(v)

\* Lines 130-142: the handle check and the parse of the input.
SetEntry(t, v) ==
    /\ Invoke(t)
    /\ IF SetCheck(xonar_udev, v) < 0
       THEN ReturnAtEntry(t, "set", v, <<SetCheck(xonar_udev, v), "">>)
       ELSE /\ Enter(t, "set", v, "set_lock")
            /\ speakers' = [speakers EXCEPT ![t] = SetCheck(xonar_udev, v)]
    /\ UNCHANGED <<lifecycle, handle, xonar_mutex, current_output, dev_sel,
                   inflight, ret, xq>>
    /\ UNCHANGED wire

\* Line 144: mutex_lock.
SetLock(t) ==
    /\ pc[t] = "set_lock"
    /\ xonar_mutex = NoOwner
    /\ xonar_mutex' = t
    /\ pc' = [pc EXCEPT ![t] = "set_switch"]
    /\ UNCHANGED <<lifecycle, handle, current_output, dev_sel, inflight,
                   callattrs, ret, xq, unk, returned>>
    /\ UNCHANGED wire

\* Lines 145, 69-81: xonar_switch reads the handle, allocates and issues.
SetSwitchBegin(t) ==
    /\ pc[t] = "set_switch"
    /\ \/ /\ ret' = [ret EXCEPT ![t] = -ENOMEM]
          /\ pc' = [pc EXCEPT ![t] = "set_upd"]
          /\ UNCHANGED inflight
       \/ /\ xonar_udev = NULL
          /\ pc' = [pc EXCEPT ![t] = "oops"]
          /\ UNCHANGED <<ret, inflight>>
       \/ /\ xonar_udev # NULL
          /\ inflight' = inflight \cup
                            { Transfer(t, SwitchMsg(xonar_udev, speakers[t])) }
          /\ pc' = [pc EXCEPT ![t] = "set_xfer"]
          /\ UNCHANGED ret
    /\ UNCHANGED <<lifecycle, handle, xonar_mutex, current_output, dev_sel,
                   callattrs, xq, unk, returned>>
    /\ UNCHANGED wire

\* Lines 76-84: usb_control_msg returns; a full write reaches the device.
SetSwitchEnd(t) ==
    /\ pc[t] = "set_xfer"
    /\ \E r \in ControlMsgResults(SWITCH_LEN) :
          /\ ret' = [ret EXCEPT ![t] = r]
          /\ dev_sel' = IF r = SWITCH_LEN THEN speakers[t] ELSE dev_sel
          /\ fresh' = IF r >= 0 THEN speakers[t] ELSE fresh
    /\ inflight' = { x \in inflight : x.by # t }
    /\ pc' = [pc EXCEPT ![t] = "set_upd"]
    /\ UNCHANGED <<lifecycle, handle, xonar_mutex, current_output, callattrs,
                   xq, unk, returned>>
    /\ UNCHANGED reply

\* A cache update that does not look at the transfer's result.
SetCommits_Always(r) == TRUE

\* Line 146: the transfer counts as done.
SetCommits(r) == r >= 0

\* Line 153: output_set's return value.
SetResult(r) == IF r < 0 THEN r ELSE 0

\* Lines 146-150: the cache follows a transfer that did not fail.
SetUpdate(t) ==
    /\ pc[t] = "set_upd"
    /\ IF SetCommits(ret[t])
       THEN WriteCache(speakers[t])
       ELSE UNCHANGED <<current_output, unk>>
    /\ pc' = [pc EXCEPT ![t] = "set_unlock"]
    /\ UNCHANGED <<lifecycle, handle, xonar_mutex, dev_sel, inflight,
                   callattrs, ret, xq, returned>>
    /\ UNCHANGED wire

\* Lines 151-153: mutex_unlock and the return value.
SetUnlock(t) ==
    /\ pc[t] = "set_unlock"
    /\ xonar_mutex' = NoOwner
    /\ Return(t, "set", <<SetResult(ret[t]), "">>)
    /\ UNCHANGED <<lifecycle, handle, current_output, dev_sel, inflight>>

----------------------------------------------------------------------------
(* output_get *)

\* Lines 156-161: the handle check.
GetEntry(t) ==
    /\ Invoke(t)
    /\ IF xonar_udev = NULL
       THEN ReturnAtEntry(t, "get", <<>>, Sprintf(Disconnected))
       ELSE /\ Enter(t, "get", <<>>, "get_lock")
            /\ UNCHANGED speakers
    /\ UNCHANGED <<lifecycle, handle, xonar_mutex, current_output, dev_sel,
                   inflight, ret, xq>>
    /\ UNCHANGED wire

\* Line 163: mutex_lock.
GetLock(t) ==
    /\ pc[t] = "get_lock"
    /\ xonar_mutex = NoOwner
    /\ xonar_mutex' = t
    /\ pc' = [pc EXCEPT ![t] = "get_status"]
    /\ UNCHANGED <<lifecycle, handle, current_output, dev_sel, inflight,
                   callattrs, ret, xq, unk, returned>>
    /\ UNCHANGED wire

\* Lines 164, 92-101: xonar_get_status reads the handle, allocates and issues.
GetStatusBegin(t) ==
    /\ pc[t] = "get_status"
    /\ \/ /\ ret' = [ret EXCEPT ![t] = -ENOMEM]
          /\ xq' = [xq EXCEPT ![t] = "fail"]
          /\ pc' = [pc EXCEPT ![t] = "get_upd"]
          /\ UNCHANGED inflight
       \/ /\ xonar_udev = NULL
          /\ pc' = [pc EXCEPT ![t] = "oops"]
          /\ UNCHANGED <<ret, xq, inflight>>
       \/ /\ xonar_udev # NULL
          /\ inflight' = inflight \cup { Transfer(t, StatusMsg(xonar_udev)) }
          /\ pc' = [pc EXCEPT ![t] = "get_xfer"]
          /\ UNCHANGED <<ret, xq>>
    /\ UNCHANGED <<lifecycle, handle, xonar_mutex, current_output, dev_sel,
                   callattrs, unk, returned>>
    /\ UNCHANGED wire

\* A decoding that knows the two channel counts and nothing else.
DecodeStatus_KnownCounts(r, b) ==
    IF r < 0 THEN r
    ELSE IF b = 8 THEN 1
    ELSE IF b = 2 THEN 0 ELSE -1

\* A decoding that tests byte 0 against 1, the value output_set sends.
DecodeStatus_WrongByte(r, b) ==
    IF r < 0 THEN r
    ELSE IF b = 1 THEN 1 ELSE 0

\* Lines 103-111: what xonar_get_status makes of the transfer's result r and
\* of byte 0 of the buffer.
DecodeStatus(r, b) ==
    IF r < 0 THEN r
    ELSE IF b = 8 THEN 1 ELSE 0

\* Lines 96-111: usb_control_msg returns and the reply is decoded.
GetStatusEnd(t) ==
    /\ pc[t] = "get_xfer"
    /\ \E r \in ControlMsgResults(STATUS_LEN), b \in ReplyBytes :
          /\ ret' = [ret EXCEPT ![t] = DecodeStatus(r, b)]
          /\ xq' = [xq EXCEPT ![t] = Quality(r, b)]
          /\ fresh' = IF r >= 0 THEN DecodeStatus(r, b) ELSE fresh
          /\ reply' = [reply EXCEPT ![t] = IF r >= 0 THEN b ELSE -1]
    /\ inflight' = { x \in inflight : x.by # t }
    /\ pc' = [pc EXCEPT ![t] = "get_upd"]
    /\ UNCHANGED <<lifecycle, handle, xonar_mutex, current_output, dev_sel,
                   callattrs, unk, returned>>

\* A cache update that does not look at the status.
GetCommits_Always(status) == TRUE

\* A cache update that only rules out the failed allocation.
GetCommits_NotOom(status) == status # -ENOMEM

\* Line 165: the status counts as read.
GetCommits(status) == status >= 0

\* Lines 165-166: the cache follows a status that is not an error.
GetUpdate(t) ==
    /\ pc[t] = "get_upd"
    /\ IF GetCommits(ret[t])
       THEN WriteCache(ret[t])
       ELSE UNCHANGED <<current_output, unk>>
    /\ pc' = [pc EXCEPT ![t] = "get_unlock"]
    /\ UNCHANGED <<lifecycle, handle, xonar_mutex, dev_sel, inflight,
                   callattrs, ret, xq, returned>>
    /\ UNCHANGED wire

\* Line 167: mutex_unlock.
GetUnlock(t) ==
    /\ pc[t] = "get_unlock"
    /\ xonar_mutex' = NoOwner
    /\ pc' = [pc EXCEPT ![t] = "get_read1"]
    /\ UNCHANGED <<lifecycle, handle, current_output, dev_sel, inflight,
                   callattrs, ret, xq, unk, returned>>
    /\ UNCHANGED wire

\* Lines 169-170: the first read of current_output, after the unlock.
GetRead1(t) ==
    /\ pc[t] = "get_read1"
    /\ IF current_output = 1
       THEN Return(t, "get", Sprintf("speakers\n"))
       ELSE /\ pc' = [pc EXCEPT ![t] = "get_read2"]
            /\ UNCHANGED <<callattrs, ret, xq, unk, returned, wire>>
    /\ UNCHANGED <<lifecycle, handle, xonar_mutex, current_output, dev_sel,
                   inflight>>

\* Lines 171-174: the second read of current_output.
GetRead2(t) ==
    /\ pc[t] = "get_read2"
    /\ IF current_output = 0
       THEN Return(t, "get", Sprintf("headphones\n"))
       ELSE Return(t, "get", Sprintf("unknown\n"))
    /\ UNCHANGED <<lifecycle, handle, xonar_mutex, current_output, dev_sel,
                   inflight>>

----------------------------------------------------------------------------
(* xonar_ae_init and xonar_ae_exit *)

\* A startup that goes on without a device.
InitCheck_AlwaysOk(found) == 0

\* Lines 182-185: startup gives up when no device was found.
InitCheck(found) == IF found = NULL THEN -ENODEV ELSE 0

\* Lines 181-185: the search of the bus; usb_get_dev takes the reference.  A
\* startup that returns an error ends the load.
InitFind ==
    /\ kpc = "load"
    /\ \E bus \in Buses :
          /\ xonar_udev' = find_xonar(bus)
          /\ refcnt' = IF find_xonar(bus) # NULL THEN refcnt + 1 ELSE refcnt
          /\ IF InitCheck(find_xonar(bus)) < 0
             THEN /\ init_ret' = InitCheck(find_xonar(bus))
                  /\ kpc' = "failed"
             ELSE /\ kpc' = "init_status"
                  /\ UNCHANGED init_ret
    /\ UNCHANGED <<init_status, cache0, plugged, xonar_mutex, current_output,
                   dev_sel, inflight, pc, callattrs, ret, xq, unk, returned>>
    /\ UNCHANGED wire

\* Lines 187, 92-101: the initial status query is issued, with no lock taken.
InitStatusBegin ==
    /\ kpc = "init_status"
    /\ \/ /\ init_status' = -ENOMEM
          /\ kpc' = "init_assign"
          /\ UNCHANGED inflight
       \/ /\ inflight' = inflight \cup
                            { Transfer(InitTask, StatusMsg(xonar_udev)) }
          /\ kpc' = "init_xfer"
          /\ UNCHANGED init_status
    /\ UNCHANGED <<init_ret, cache0, handle, xonar_mutex, current_output,
                   dev_sel, pc, callattrs, ret, xq, unk, returned>>
    /\ UNCHANGED wire

\* Lines 96-111: the initial query returns.
InitStatusEnd ==
    /\ kpc = "init_xfer"
    /\ \E r \in ControlMsgResults(STATUS_LEN), b \in ReplyBytes :
          /\ init_status' = DecodeStatus(r, b)
          /\ fresh' = IF r >= 0 THEN DecodeStatus(r, b) ELSE fresh
          /\ reply' = [reply EXCEPT ![InitTask] = IF r >= 0 THEN b ELSE -1]
    /\ inflight' = { x \in inflight : x.by # InitTask }
    /\ kpc' = "init_assign"
    /\ UNCHANGED <<init_ret, cache0, handle, xonar_mutex, current_output,
                   dev_sel, pc, callattrs, ret, xq, unk, returned>>

\* A startup that falls back to headphones when its query fails.
InitOutput_Default(status) == IF status >= 0 THEN status ELSE 0

\* Line 188: the selection startup caches.
InitOutput(status) == IF status >= 0 THEN status ELSE -1

\* Lines 188-194: the cache is assigned and startup succeeds.
InitAssign ==
    /\ kpc = "init_assign"
    /\ WriteCache(InitOutput(init_status))
    /\ cache0' = current_output'
    /\ init_ret' = 0
    /\ init_status' = 0
    /\ reply' = [reply EXCEPT ![InitTask] = -1]
    /\ kpc' = "live"
    /\ UNCHANGED <<handle, xonar_mutex, dev_sel, inflight, pc, callattrs, ret,
                   xq, returned>>
    /\ UNCHANGED fresh

\* A shutdown that forgets usb_put_dev.
ExitRefs_Leak(udev, refs) == refs

\* Lines 199-200: the references left once shutdown has tested the handle.
ExitRefs(udev, refs) == IF udev # NULL THEN refs - 1 ELSE refs

\* Lines 199-200: shutdown drops the reference if a handle is held.
ExitPut ==
    /\ kpc = "live"
    /\ refcnt' = ExitRefs(xonar_udev, refcnt)
    /\ kpc' = "exit_clear"
    /\ alone' = [u \in Callers |-> FALSE]
    /\ UNCHANGED <<init_ret, init_status, cache0, xonar_udev, plugged,
                   xonar_mutex, current_output, dev_sel, inflight, pc, val,
                   speakers, follows, first, ncalls, clean, serial, ret, xq,
                   unk, returned, wire>>

\* Line 201: the handle is cleared.
ExitClear ==
    /\ kpc = "exit_clear"
    /\ xonar_udev' = NULL
    /\ kpc' = "exited"
    /\ UNCHANGED <<init_ret, init_status, cache0, refcnt, plugged, xonar_mutex,
                   current_output, dev_sel, inflight, pc, callattrs, ret, xq,
                   unk, returned>>
    /\ UNCHANGED wire

\* The parameter files go away once startup has failed or shutdown has run
\* and no call is in progress; no call starts after that.
Teardown ==
    /\ kpc \in { "failed", "exited" }
    /\ \A t \in Callers : ~InCall(t)
    /\ kpc' = IF kpc = "failed" THEN "load_failed" ELSE "unloaded"
    /\ UNCHANGED <<init_ret, init_status, cache0, handle, xonar_mutex,
                   current_output, dev_sel, inflight, pc, callattrs, ret, xq,
                   unk, returned>>
    /\ UNCHANGED wire

\* The matched device is pulled from the bus; the handle stays held.
Unplug ==
    /\ plugged
    /\ xonar_udev # NULL
    /\ plugged' = FALSE
    /\ UNCHANGED <<lifecycle, xonar_udev, refcnt, xonar_mutex, current_output,
                   dev_sel, inflight, pc, callattrs, ret, xq, unk, returned>>
    /\ UNCHANGED wire

----------------------------------------------------------------------------
(* The specification. *)

Init ==
    /\ kpc = "load"
    /\ init_ret = NotReturned
    /\ init_status = 0
    /\ xonar_udev = NULL
    /\ refcnt = 0
    /\ plugged = TRUE
    /\ xonar_mutex = NoOwner
    /\ current_output = -1
    /\ dev_sel = -1
    /\ inflight = {}
    /\ pc = [t \in Callers |-> "idle"]
    /\ val = [t \in Callers |-> <<>>]
    /\ speakers = [t \in Callers |-> 0]
    /\ ret = [t \in Callers |-> 0]
    /\ xq = [t \in Callers |-> "none"]
    /\ unk = [t \in Callers |-> FALSE]
    /\ alone = [t \in Callers |-> FALSE]
    /\ follows = [t \in Callers |-> NoToken]
    /\ first = [t \in Callers |-> FALSE]
    /\ ncalls = 0
    /\ last = NoCall
    /\ cache0 = -1
    /\ clean = TRUE
    /\ hist = <<>>
    /\ serial = TRUE
    /\ fresh = -1
    /\ reply = [t \in Tasks |-> -1]

Next ==
    \/ \E t \in Callers : \E v \in Inputs : SetEntry(t, v)
    \/ \E t \in Callers : SetLock(t)
    \/ \E t \in Callers : SetSwitchBegin(t)
    \/ \E t \in Callers : SetSwitchEnd(t)
    \/ \E t \in Callers : SetUpdate(t)
    \/ \E t \in Callers : SetUnlock(t)
    \/ \E t \in Callers : GetEntry(t)
    \/ \E t \in Callers : GetLock(t)
    \/ \E t \in Callers : GetStatusBegin(t)
    \/ \E t \in Callers : GetStatusEnd(t)
    \/ \E t \in Callers : GetUpdate(t)
    \/ \E t \in Callers : GetUnlock(t)
    \/ \E t \in Callers : GetRead1(t)
    \/ \E t \in Callers : GetRead2(t)
    \/ InitFind
    \/ InitStatusBegin
    \/ InitStatusEnd
    \/ InitAssign
    \/ ExitPut
    \/ ExitClear
    \/ Teardown
    \/ Unplug

Spec == Init /\ [][Next]_vars

----------------------------------------------------------------------------
(* Vocabulary of the properties. *)

InSet(t) == pc[t] \in { "set_lock", "set_switch", "set_xfer", "set_upd",
                        "set_unlock" }

\* Caller t takes a step.
Steps(t) == pc'[t] # pc[t]

\* Caller t returns from inside its call.
Returns(t) == pc[t] # "idle" /\ pc'[t] = "idle"

\* A call is invoked.
Invoked == ncalls' = ncalls + 1

\* A call is invoked and returns at once.
EntryReturn == Invoked /\ pc' = pc

\* The tokens output_set documents, and each with one newline after it.
Tokens == { T_speakers, T_1, T_headphones, T_0 }
ExactTokens == Tokens \cup { tk \o <<LF>> : tk \in Tokens }

\* The selection a token names.
Selection(v) ==
    IF v \in { T_speakers, T_1, T_speakers \o <<LF>>, T_1 \o <<LF>> } THEN 1 ELSE 0

\* The canonical string of a token, as output_get leaves it in buf.
Canonical(v) == IF Selection(v) = 1 THEN "speakers\n" ELSE "headphones\n"

\* A text that is a token in some mix of upper and lower case.
CaseVariant(v) == Lower(v) \in ExactTokens

\* Startup has returned without finding a device.
StartupFoundNothing ==
    init_ret # NotReturned /\ xonar_udev = NULL /\ kpc \notin { "exited", "unloaded" }

\* What a call returns when there is no device.
NoDeviceResult(o) == IF o = "get" THEN Sprintf(Disconnected) ELSE <<-ENODEV, "">>

----------------------------------------------------------------------------
(* C1: at most one control transfer is in flight, and every transfer is in
   flight only while the caller that issued it holds xonar_mutex.  Startup
   issues its status query with no lock taken, so this fails. *)
C1_OneTransferUnderLock ==
    /\ Cardinality(inflight) <= 1
    /\ \A x \in inflight : x.by \in Callers /\ x.locked /\ xonar_mutex = x.by

----------------------------------------------------------------------------
(* C2: the results of the calls made while the module is live, and the cache
   they leave, are those of running the same calls one after the other in
   some order, each transfer free to succeed with any reply or to fail.
   output_get reads current_output after it has unlocked, so this fails. *)

\* One call run alone from one of the caches in cs, with the result recorded
\* for it: the caches it can leave (none when it cannot give that result).
SerialStep(r, cs) ==
    IF cs = {} THEN {}
    ELSE IF r.op = "set"
    THEN IF r.sp < 0
         THEN IF r.res = <<-EINVAL, "">> THEN cs ELSE {}
         ELSE IF r.res = <<0, "">> THEN { r.sp }
              ELSE IF r.res[1] < 0 /\ r.res[1] # -EINVAL THEN cs ELSE {}
    ELSE { c \in cs \cup { 0, 1 } : r.res = Sprintf(RenderText(c)) }

RECURSIVE SerialRun(_, _, _, _)
SerialRun(h, order, i, cs) ==
    IF i > Len(h) THEN cs
    ELSE SerialRun(h, order, i + 1, SerialStep(h[order[i]], cs))

Orders(n) == { f \in [1..n -> 1..n] : \A i, j \in 1..n : i # j => f[i] # f[j] }

Serializable(h, c0, c1) ==
    \E order \in Orders(Len(h)) : c1 \in SerialRun(h, order, 1, { c0 })

C2_Serializable ==
    (kpc = "live" /\ clean /\ \A t \in Callers : pc[t] = "idle")
        => Serializable(hist, cache0, current_output)

----------------------------------------------------------------------------
(* C3: once the transfer of an output_set has failed (a negative result of
   usb_control_msg, or -ENOMEM for the buffer), no step of that call changes
   current_output, and the call returns the same error code. *)
C3_FailedSetKeepsCache ==
    [][\A t \in Callers :
          (InSet(t) /\ Steps(t)) =>
              /\ (current_output' # current_output
                      => pc[t] = "set_upd" /\ ret[t] >= 0)
              /\ (Returns(t) /\ ret[t] < 0
                      => last' = CallRecord("set", val[t], ret[t], <<ret[t], "">>))]_vars

C3_Witness ==
    \E t \in Callers :
        pc[t] = "set_unlock" /\ ret[t] < 0 /\ current_output # speakers[t]

----------------------------------------------------------------------------
(* C4: an output_get whose status transfer failed does not change
   current_output, returns a text and never an error, returns the text of the
   cached value when it ran alone, and returns "unknown" only if the cache
   was unknown at some time during the call.  The two reads of current_output
   after the unlock can straddle a write, so the last part fails. *)
C4_FailedGetReturnsCache ==
    [][\A t \in Callers :
          (IsGet(t) /\ ret[t] < 0 /\ Steps(t)
              /\ pc[t] \in { "get_upd", "get_unlock", "get_read1", "get_read2" }) =>
              /\ current_output' = current_output
              /\ Returns(t) =>
                    /\ last'.res[1] > 0
                    /\ alone[t] => last'.res = Sprintf(RenderText(current_output))
                    /\ last'.res[2] = "unknown\n" => unk[t]]_vars

----------------------------------------------------------------------------
(* C5: a call made while xonar_udev is NULL returns at once, "disconnected"
   from output_get and -ENODEV from output_set whatever the input, and takes
   no lock, issues no transfer and leaves current_output alone. *)
C5_NoDevice ==
    [][(Invoked /\ xonar_udev = NULL) =>
          /\ pc' = pc
          /\ last'.op \in { "get", "set" }
          /\ last'.res = NoDeviceResult(last'.op)
          /\ UNCHANGED <<xonar_mutex, inflight, current_output, dev_sel>>]_vars

C5_Witness ==
    /\ xonar_udev = NULL
    /\ last = CallRecord("set", T_speakers, 0, <<-ENODEV, "">>)

----------------------------------------------------------------------------
(* C6, as claimed: every output_set with an input that is no token (in any
   case) returns -EINVAL. *)
C6_Original ==
    (last.op = "set" /\ ~CaseVariant(last.val)) => last.res = <<-EINVAL, "">>

(* C6, amended: with a device handle held, every output_set with an input
   that is not a token, optionally followed by one newline, returns -EINVAL
   at once, issues no transfer and leaves current_output alone; no such input
   gets past the entry of output_set. *)
C6_InvalidRejected ==
    /\ [](\A t \in Callers : InSet(t) => val[t] \in ExactTokens)
    /\ [][(EntryReturn /\ xonar_udev # NULL /\ last'.op = "set") =>
             /\ last'.val \notin ExactTokens
             /\ last'.res = <<-EINVAL, "">>
             /\ UNCHANGED <<xonar_mutex, inflight, current_output, dev_sel>>]_vars

C6_Witness ==
    /\ xonar_udev # NULL
    /\ last = CallRecord("set", <<>>, 0, <<-EINVAL, "">>)

----------------------------------------------------------------------------
(* C7: an output_get that runs alone, right after a successful output_set
   of a token, and whose status read succeeds and echoes the selection last
   written, returns the canonical string of that token. *)
C7_SetThenGet ==
    [][\A t \in Callers :
          (IsGet(t) /\ Returns(t) /\ alone[t] /\ follows[t] # NoToken
              /\ xq[t] = "echo") =>
              last'.res = Sprintf(Canonical(follows[t]))]_vars

C7_Witness ==
    \E t \in Callers :
        pc[t] = "get_unlock" /\ alone[t] /\ follows[t] = T_1 /\ xq[t] = "echo"

----------------------------------------------------------------------------
(* C8, as claimed: an output_set whose input is a token in any mix of upper
   and lower case is not rejected with -EINVAL. *)
C8_Original ==
    (last.op = "set" /\ CaseVariant(last.val)) => last.res # <<-EINVAL, "">>

(* C8, amended: output_set accepts the tokens exactly as written, in lower
   case and optionally followed by one newline, and switches to the selection
   the token names; with a device handle held it rejects every other text,
   the other case variants included, with -EINVAL. *)
C8_ExactTokens ==
    [][(Invoked /\ xonar_udev # NULL) =>
          \/ \E t \in Callers : pc[t] = "idle" /\ pc'[t] = "get_lock"
          \/ \E t \in Callers :
                /\ pc[t] = "idle" /\ pc'[t] = "set_lock"
                /\ val'[t] \in ExactTokens
                /\ speakers'[t] = Selection(val'[t])
          \/ /\ pc' = pc
             /\ last'.op = "set"
             /\ last'.val \notin ExactTokens
             /\ last'.res = <<-EINVAL, "">>]_vars

C8_Witness ==
    /\ xonar_udev # NULL
    /\ last = CallRecord("set", <<"S", "p", "e", "a", "k", "e", "r", "s">>, 0,
                         <<-EINVAL, "">>)

----------------------------------------------------------------------------
(* C9, as claimed: when startup finds no device it does not fail, and the
   module stays loaded. *)
C9_Original ==
    StartupFoundNothing => init_ret = 0 /\ kpc = "live"

(* C9, amended: when startup finds no device, xonar_ae_init fails with
   -ENODEV, holding no handle, having issued no transfer and with the cache
   unknown; the module does not stay loaded, and a call that still runs
   returns "disconnected" or -ENODEV. *)
C9_StartupFails ==
    /\ [](StartupFoundNothing =>
             /\ init_ret = -ENODEV
             /\ kpc \in { "failed", "load_failed" }
             /\ refcnt = 0
             /\ inflight = {}
             /\ current_output = -1
             /\ \A t \in Callers : pc[t] = "idle")
    /\ [][(StartupFoundNothing /\ Invoked) =>
             pc' = pc /\ last'.res = NoDeviceResult(last'.op)]_vars

C9_Witness ==
    /\ StartupFoundNothing
    /\ last = CallRecord("get", <<>>, 0, Sprintf(Disconnected))

----------------------------------------------------------------------------
(* C10, as claimed: the first call, an output_get made after a successful
   startup and after the device was unplugged, returns "disconnected". *)
C10_Original ==
    [][\A t \in Callers :
          (IsGet(t) /\ first[t] /\ Returns(t)) =>
              last'.res = Sprintf(Disconnected)]_vars

(* C10, amended: such an output_get still finds the handle, its status
   transfer fails, and it returns the text of the selection cached at
   startup. *)
C10_UnpluggedReturnsCache ==
    [][\A t \in Callers :
          (IsGet(t) /\ first[t] /\ Returns(t)) =>
              /\ ret[t] < 0
              /\ current_output = cache0
              /\ last'.res = Sprintf(RenderText(cache0))]_vars

C10_Witness ==
    \E t \in Callers :
        /\ first[t] /\ pc[t] = "get_read2" /\ ret[t] = -ENODEV
        /\ current_output = 0

----------------------------------------------------------------------------
(* C11: a status read that did not fail decodes byte 0 of the reply as
   speakers when it is 8 and as headphones for every other value of a byte,
   never as unknown; a startup whose query returns the channel count 2 leaves
   the cache at headphones. *)
Bytes == 0..255

Decoded(b) == IF b = 8 THEN 1 ELSE 0

C11_DecodeByte ==
    /\ \A r \in 0..STATUS_LEN : \A b \in Bytes : DecodeStatus(r, b) = Decoded(b)
    /\ [](\A t \in Callers : reply[t] # -1 => ret[t] = Decoded(reply[t]))
    /\ [](reply[InitTask] # -1 => init_status = Decoded(reply[InitTask]))
    /\ [][\A t \in Callers :
             (pc[t] = "get_upd" /\ Steps(t) /\ reply[t] # -1) =>
                 current_output' = Decoded(reply[t])]_vars
    /\ [][(kpc = "init_assign" /\ kpc' = "live" /\ reply[InitTask] # -1) =>
             /\ current_output' = Decoded(reply[InitTask])
             /\ reply[InitTask] = 2 => cache0' = 0]_vars

C11_Witness ==
    kpc = "init_assign" /\ reply[InitTask] = 2 /\ init_status = 0

----------------------------------------------------------------------------
(* C12: every control transfer issued is either the write of request 1,
   selector 8, entity 7, timeout 1000 ms and the 2-byte payload <<1, 3>> for
   speakers or <<2, 3>> for headphones, or the read of request 1, selector 2,
   entity 7, timeout 1000 ms into a 6-byte buffer. *)
SelectShape(m, spk) ==
    /\ m.dir = "out" /\ m.request = 1
    /\ m.wValue = 2048 /\ m.wIndex = 1792
    /\ m.timeout = 1000 /\ m.size = 2 /\ Len(m.data) = 2
    /\ m.data = IF spk = 1 THEN <<1, 3>> ELSE <<2, 3>>

StatusShape(m) ==
    /\ m.dir = "in" /\ m.request = 1
    /\ m.wValue = 512 /\ m.wIndex = 1792
    /\ m.timeout = 1000 /\ m.size = 6 /\ m.data = <<>>

C12_TransferShapes ==
    \A x \in inflight :
        \/ x.by \in Callers /\ pc[x.by] = "set_xfer"
               /\ SelectShape(x.msg, speakers[x.by])
        \/ StatusShape(x.msg)

C12_Witness ==
    \E x \in inflight : x.msg.dir = "out" /\ x.msg.data = <<2, 3>>

----------------------------------------------------------------------------
(* C13: the reference taken at startup is released once, by shutdown and by
   nothing else; shutdown releases it if and only if a handle is held and
   leaves the handle cleared, so that xonar_ae_exit run with no handle (no
   device found, or a shutdown already done) releases nothing. *)
C13_ReleasedOnce ==
    /\ \A refs \in 0..1 : ExitRefs(NULL, refs) = refs
    /\ [](refcnt \in 0..1)
    /\ [](kpc \in { "failed", "load_failed" } => refcnt = 0 /\ xonar_udev = NULL)
    /\ [](kpc \in { "exited", "unloaded" } =>
             /\ refcnt = 0 /\ xonar_udev = NULL
             /\ ExitRefs(xonar_udev, refcnt) = refcnt)
    /\ [][refcnt' # refcnt =>
             \/ kpc = "load" /\ refcnt' = refcnt + 1 /\ xonar_udev' # NULL
             \/ /\ kpc = "live" /\ kpc' = "exit_clear"
                /\ xonar_udev # NULL /\ refcnt' = refcnt - 1]_vars
    /\ [][(kpc = "live" /\ kpc' = "exit_clear") =>
             (refcnt' = refcnt - 1 <=> xonar_udev # NULL)]_vars

C13_Witness ==
    kpc = "exited" /\ refcnt = 0 /\ xonar_udev = NULL

----------------------------------------------------------------------------
(* C14: every read and every write of current_output, by startup, by
   output_set and by output_get, is made by a task that holds xonar_mutex,
   and a write stores the result of a transfer that did not fail.  Startup
   takes no lock and output_get reads after its unlock, so this fails. *)
LockHeldBy(task) == task \in Callers /\ xonar_mutex = task

C14_CacheUnderLock ==
    [][/\ \A t \in Callers :
             (Steps(t) /\ pc[t] \in { "set_upd", "get_upd", "get_read1",
                                      "get_read2" }) => LockHeldBy(t)
       /\ (kpc = "init_assign" /\ kpc' = "live") => LockHeldBy(InitTask)
       /\ current_output' # current_output => current_output' = fresh]_vars

----------------------------------------------------------------------------
(* C15: an output_get whose status transfer did not fail returns the text of
   the value decoded from its own transfer, whatever runs beside it.  It
   renders current_output as read after the unlock, so this fails. *)
C15_OwnValue ==
    [][\A t \in Callers :
          (IsGet(t) /\ Returns(t) /\ ret[t] >= 0) =>
              last'.res = Sprintf(RenderText(ret[t]))]_vars

----------------------------------------------------------------------------
(* C16: no control transfer is issued through the handle once shutdown has
   released it.  xonar_ae_exit takes no lock, so a call that passed its
   handle check issues its transfer after the release. *)
C16_NoTransferAfterRelease ==
    \A x \in inflight : x.held

----------------------------------------------------------------------------
(* C17: after operations that never overlapped, with a transfer counted as
   succeeded when its result is not negative, current_output is the value of
   the transfer that succeeded last (the selection a set asked for, the value
   a status read decoded), and it is unknown exactly when none succeeded
   since startup began. *)
C17_LastSuccess ==
    (serial /\ kpc = "live" /\ \A t \in Callers : pc[t] = "idle") =>
        /\ current_output = fresh
        /\ current_output = -1 <=> fresh = -1

C17_Witness ==
    /\ serial /\ kpc = "live" /\ \A t \in Callers : pc[t] = "idle"
    /\ cache0 = 0 /\ current_output = 1
    /\ last.op = "get" /\ last.st < 0

----------------------------------------------------------------------------
(* C18: current_output is always -1, 0 or 1, and no step of output_set or
   output_get, failed transfers included, takes it from a known value back to
   unknown: only startup's own assignment writes -1. *)
C18_NeverBackToUnknown ==
    /\ [](current_output \in { -1, 0, 1 })
    /\ [][(current_output # -1 /\ ~(kpc = "init_assign" /\ kpc' = "live")) =>
             current_output' # -1]_vars

C18_Witness ==
    /\ kpc = "live" /\ cache0 = -1 /\ current_output = 1
    /\ last.op = "get" /\ last.st < 0

----------------------------------------------------------------------------
(* C19: xonar_mutex is held only by a call that is in progress and goes on
   to release it and return.  A call that finds the handle cleared under it
   by shutdown stops inside xonar_switch or xonar_get_status with the lock
   held, so this fails. *)
C19_LockReleased ==
    \A t \in Callers : xonar_mutex = t => InCall(t)

----------------------------------------------------------------------------
(* C20: a transfer that moved fewer bytes than its payload (2 for a select,
   6 for a status read), none included, does not change current_output.  The
   code tests only for a negative result, so this fails. *)
C20_FullPayloadOnly ==
    [][/\ \A t \in Callers :
             (Steps(t) /\ pc[t] = "set_upd" /\ ret[t] >= 0
                 /\ ret[t] < SWITCH_LEN) => current_output' = current_output
       /\ \A t \in Callers :
             (Steps(t) /\ pc[t] = "get_upd" /\ xq[t] = "short") =>
                 current_output' = current_output]_vars

====
